---- MODULE Spec2Model ----
(***************************************************************************)
(* LinguaLens DetectionPipeline (the aspect-scoring / class-lock variant): *)
(* filter() and reset() over the candidate map.                            *)
(*                                                                         *)
(* Numbers.  Scores and aspect multipliers are held in thousandths         *)
(* (0.45 is 450), aspect hints in hundredths, size ranges in thousandths   *)
(* of the frame area.  An IoU is the pair <<inter, union>> and is compared *)
(* with a threshold by cross-multiplication, so the threshold tests are    *)
(* exact for integer boxes.                                                *)
(***************************************************************************)
EXTENDS Integers, Sequences, FiniteSets, TLC

\* ---------------------------------------------------------------- bounds
\* Filter() is not taken when it would push a streak past MaxStreak.
MaxStreak == 9
\* The wall clock (Date.now(), in ms) is read up to MaxClock.
MaxClock == 1
\* the same where the class lock is exercised
MaxLockStreak == 13
\* aspectScore is evaluated on the boxes with sides up to MaxSide
MaxSide == 12

\* --------------------------------------------------------- configuration
CONFIRM_FRAMES == 8
DECAY_RATE == 2
CLASS_LOCK_FRAMES == 12
\* thresholds as <<numerator, denominator>>
NMS_THRESHOLD == <<35, 100>>
CONFUSION_THRESHOLD == <<30, 100>>
EXACT_MATCH_IOU == <<25, 100>>
SPATIAL_MATCH_IOU == <<40, 100>>
\* the score floor 0.45, in thousandths
SCORE_FLOOR == 450

CONFUSE_GROUPS ==
    { {"cell phone", "remote", "mouse", "hair drier"},
      {"cup", "bowl", "vase", "bottle"},
      {"knife", "scissors", "fork"},
      {"couch", "bed"},
      {"skateboard", "surfboard"},
      {"laptop", "tv", "book", "keyboard"},
      {"backpack", "handbag", "suitcase"},
      {"car", "truck", "bus"},
      {"dining table", "desk"},
      {"potted plant", "broccoli"} }

\* confuseMap[c]: the group of c, or {} when c is in no group
confuseMap(c) ==
    IF \E g \in CONFUSE_GROUPS : c \in g
    THEN CHOOSE g \in CONFUSE_GROUPS : c \in g
    ELSE {}

\* min, max and weight in hundredths
ASPECT_HINTS ==
    ( "cell phone" :> [min |-> 130, max |-> 280, weight |-> 25] @@
      "remote"     :> [min |-> 220, max |-> 600, weight |-> 25] @@
      "mouse"      :> [min |-> 50,  max |-> 130, weight |-> 20] @@
      "bottle"     :> [min |-> 180, max |-> 500, weight |-> 25] @@
      "cup"        :> [min |-> 60,  max |-> 160, weight |-> 20] @@
      "bowl"       :> [min |-> 30,  max |-> 90,  weight |-> 20] @@
      "vase"       :> [min |-> 120, max |-> 350, weight |-> 15] @@
      "laptop"     :> [min |-> 50,  max |-> 110, weight |-> 20] @@
      "tv"         :> [min |-> 40,  max |-> 90,  weight |-> 20] @@
      "book"       :> [min |-> 80,  max |-> 180, weight |-> 10] @@
      "knife"      :> [min |-> 200, max |-> 800, weight |-> 20] @@
      "scissors"   :> [min |-> 80,  max |-> 250, weight |-> 15] @@
      "keyboard"   :> [min |-> 15,  max |-> 55,  weight |-> 20] @@
      "hair drier" :> [min |-> 60,  max |-> 150, weight |-> 15] @@
      "fork"       :> [min |-> 300, max |-> 1000, weight |-> 20] @@
      "spoon"      :> [min |-> 250, max |-> 800, weight |-> 15] )

\* ------------------------------------------------------------- helpers
Max(a, b) == IF a >= b THEN a ELSE b
Min(a, b) == IF a <= b THEN a ELSE b

\* a detection without a bbox (bbox undefined)
NoBox == <<>>

\* p/q > t, for q > 0
Gt(r, t) == r[1] * t[2] > t[1] * r[2]

\* ------------------------------------------------------------- iou
iou(a, b) ==
    LET x1 == Max(a[1], b[1])
        y1 == Max(a[2], b[2])
        x2 == Min(a[1] + a[3], b[1] + b[3])
        y2 == Min(a[2] + a[4], b[2] + b[4])
        inter == (x2 - x1) * (y2 - y1)
    IN  IF x2 <= x1 \/ y2 <= y1 THEN <<0, 1>>
        ELSE <<inter, a[3] * a[4] + b[3] * b[4] - inter>>

\* ------------------------------------------------------------- aspectScore
\* variant: the penalty is not clamped at 0.3
aspectScoreUnclamped(cls, bbox) ==
    IF cls \notin DOMAIN ASPECT_HINTS THEN 1000
    ELSE LET hint == ASPECT_HINTS[cls]
             w == bbox[3]
             h == bbox[4]
         IN  IF w = 0 THEN 500
             ELSE IF 100 * h >= hint.min * w /\ 100 * h <= hint.max * w THEN 1000
             ELSE LET num == IF 100 * h < hint.min * w
                             THEN hint.min * w - 100 * h
                             ELSE 100 * h - hint.max * w
                      den == IF 100 * h < hint.min * w
                             THEN hint.min * w
                             ELSE hint.max * w
                  IN  1000 - ((num * hint.weight * 30) \div den)

\* the multiplier in thousandths; the penalty dist * weight * 3 is cut to
\* whole thousandths
aspectScore(cls, bbox) ==
    IF cls \notin DOMAIN ASPECT_HINTS THEN 1000
    ELSE LET hint == ASPECT_HINTS[cls]
             w == bbox[3]
             h == bbox[4]
         IN  IF w = 0 THEN 500
             ELSE IF 100 * h >= hint.min * w /\ 100 * h <= hint.max * w THEN 1000
             ELSE LET num == IF 100 * h < hint.min * w
                             THEN hint.min * w - 100 * h
                             ELSE 100 * h - hint.max * w
                      den == IF 100 * h < hint.min * w
                             THEN hint.min * w
                             ELSE hint.max * w
                  IN  Max(300, 1000 - ((num * hint.weight * 30) \div den))

\* ------------------------------------------------------------- validateSize
\* DICT and SIZE_RANGES come from dictionary.js: the size category of a class
\* ("none": no entry, or an entry without a size) and, per category, the
\* expected box-area / frame-area window in thousandths.
DICT(cls) ==
    CASE cls \in {"cup", "bowl", "bottle", "vase"} -> "small"
      [] cls \in {"couch", "bed"} -> "large"
      [] OTHER -> "none"

SIZE_RANGES(size) ==
    CASE size = "small" -> [min |-> 10, max |-> 100]
      [] size = "large" -> [min |-> 150, max |-> 900]

\* true when evaluating validateSize(pred, videoArea) reads pred.bbox
validateSizeReadsBox(pred) == DICT(pred.class) # "none"

validateSize(pred, videoArea) ==
    IF DICT(pred.class) = "none" THEN TRUE
    ELSE LET boxArea == pred.bbox[3] * pred.bbox[4]
             range == SIZE_RANGES(DICT(pred.class))
         IN  /\ 2 * 1000 * boxArea >= range.min * videoArea
             /\ 1000 * boxArea <= 2 * range.max * videoArea

\* ------------------------------------------------------------- filter, steps 1-6
\* variant: the raw score is kept as the score
ScoredUnadjusted(p) ==
    LET aScore == aspectScore(p.class, p.bbox)
    IN  [class |-> p.class, bbox |-> p.bbox,
         score |-> p.score, exact |-> 1000 * p.score,
         origScore |-> p.score, aspectScore |-> aScore]

\* Step 1: p -> {...p, score: p.score * aScore, _origScore, _aspectScore};
\* score is the product cut to thousandths, exact the product in millionths
Scored(p) ==
    LET aScore == aspectScore(p.class, p.bbox)
    IN  [class |-> p.class, bbox |-> p.bbox,
         score |-> (p.score * aScore) \div 1000, exact |-> p.score * aScore,
         origScore |-> p.score, aspectScore |-> aScore]

\* aspectScore(p.class, p.bbox) reads bbox[2] when the class has a hint
ScoredThrows(p) == p.bbox = NoBox /\ p.class \in DOMAIN ASPECT_HINTS

\* p.score after step 1, in millionths (not cut to thousandths)
ScoreExact(p) == p.exact

\* Step 2: preds.sort((a, b) => b.score - a.score), a stable sort
RECURSIVE InsertSorted(_, _)
InsertSorted(s, p) ==
    IF s = <<>> THEN <<p>>
    ELSE IF ScoreExact(Head(s)) >= ScoreExact(p) THEN <<Head(s)>> \o InsertSorted(Tail(s), p)
    ELSE <<p>> \o s

RECURSIVE SortByScore(_)
SortByScore(s) ==
    IF s = <<>> THEN <<>>
    ELSE InsertSorted(SortByScore(SubSeq(s, 1, Len(s) - 1)), s[Len(s)])

\* variant: the NMS threshold 0.45 of the simpler pipeline
RECURSIVE DominatedByKeptLoose(_, _, _)
DominatedByKeptLoose(p, kept, i) ==
    IF i > Len(kept) THEN 0
    ELSE IF p.bbox = NoBox \/ kept[i].bbox = NoBox THEN 2
    ELSE IF Gt(iou(p.bbox, kept[i].bbox), <<45, 100>>) THEN 1
    ELSE DominatedByKeptLoose(p, kept, i + 1)

\* variant: iou of a missing bbox counts as no overlap
RECURSIVE DominatedByKeptGuarded(_, _, _)
DominatedByKeptGuarded(p, kept, i) ==
    IF i > Len(kept) THEN 0
    ELSE IF p.bbox = NoBox \/ kept[i].bbox = NoBox
         THEN DominatedByKeptGuarded(p, kept, i + 1)
    ELSE IF Gt(iou(p.bbox, kept[i].bbox), NMS_THRESHOLD) THEN 1
    ELSE DominatedByKeptGuarded(p, kept, i + 1)

\* Step 5: greedy NMS.  dominated: 0 no, 1 yes, 2 iou() read a missing bbox
RECURSIVE DominatedByKept(_, _, _)
DominatedByKept(p, kept, i) ==
    IF i > Len(kept) THEN 0
    ELSE IF p.bbox = NoBox \/ kept[i].bbox = NoBox THEN 2
    ELSE IF Gt(iou(p.bbox, kept[i].bbox), NMS_THRESHOLD) THEN 1
    ELSE DominatedByKept(p, kept, i + 1)

RECURSIVE NMS(_, _)
NMS(preds, kept) ==
    IF preds = <<>> THEN [threw |-> FALSE, list |-> kept]
    ELSE LET d == DominatedByKept(Head(preds), kept, 1)
         IN  IF d = 2 THEN [threw |-> TRUE, list |-> kept]
             ELSE NMS(Tail(preds), IF d = 1 THEN kept ELSE Append(kept, Head(preds)))

\* Step 6: confusion groups.  The scan of resolved for p: the index of the
\* first r of p's group with iou > CONFUSION_THRESHOLD (0: none, -1: threw)
RECURSIVE ConfusedWith(_, _, _)
ConfusedWith(p, resolved, i) ==
    IF i > Len(resolved) THEN 0
    ELSE LET r == resolved[i]
         IN  IF confuseMap(r.class) # {} /\ confuseMap(r.class) = confuseMap(p.class)
             THEN IF p.bbox = NoBox \/ r.bbox = NoBox THEN 0 - 1
                  ELSE IF Gt(iou(p.bbox, r.bbox), CONFUSION_THRESHOLD) THEN i
                  ELSE ConfusedWith(p, resolved, i + 1)
             ELSE ConfusedWith(p, resolved, i + 1)

\* variant: the fit is the raw confidence alone
FitRaw(p) == 1000 * p.origScore

\* fit = (p._aspectScore || 1.0) * p._origScore, in millionths
Fit(p) == (IF p.aspectScore = 0 THEN 1000 ELSE p.aspectScore) * p.origScore

RECURSIVE Resolve(_, _)
Resolve(kept, resolved) ==
    IF kept = <<>> THEN [threw |-> FALSE, list |-> resolved]
    ELSE LET p == Head(kept)
             i == IF confuseMap(p.class) = {} THEN 0 ELSE ConfusedWith(p, resolved, 1)
         IN  IF i < 0 THEN [threw |-> TRUE, list |-> resolved]
             ELSE IF i = 0 THEN Resolve(Tail(kept), Append(resolved, p))
             ELSE IF Fit(p) > Fit(resolved[i])
                  THEN Resolve(Tail(kept), [resolved EXCEPT ![i] = p])
                  ELSE Resolve(Tail(kept), resolved)

\* the number of times Resolve takes `resolved[idx] = p` (l.595-599)
RECURSIVE Replacements(_, _)
Replacements(kept, resolved) ==
    IF kept = <<>> THEN 0
    ELSE LET p == Head(kept)
             i == IF confuseMap(p.class) = {} THEN 0 ELSE ConfusedWith(p, resolved, 1)
         IN  IF i < 0 THEN 0
             ELSE IF i = 0 THEN Replacements(Tail(kept), Append(resolved, p))
             ELSE IF Fit(p) > Fit(resolved[i])
                  THEN 1 + Replacements(Tail(kept), [resolved EXCEPT ![i] = p])
                  ELSE Replacements(Tail(kept), resolved)

\* variant: the floor is put to the raw confidence
FlooredRaw(p) == p.origScore >= SCORE_FLOOR

\* Step 4: p.score >= 0.45, on the adjusted score
Floored(p) == p.score >= SCORE_FLOOR

\* Steps 1-6 of filter(rawPreds, videoWidth, videoHeight): the resolved list,
\* or threw when a step reads the bbox of a detection that has none
Pipeline(rawPreds, videoWidth, videoHeight) ==
    LET videoArea == videoWidth * videoHeight
        Sized(p) == validateSize(p, videoArea)
    IN  IF \E i \in 1..Len(rawPreds) : ScoredThrows(rawPreds[i])
        THEN [threw |-> TRUE, list |-> <<>>, kept |-> <<>>]
        ELSE LET sorted == SortByScore([i \in 1..Len(rawPreds) |-> Scored(rawPreds[i])])
             IN  IF \E i \in 1..Len(sorted) :
                        sorted[i].bbox = NoBox /\ validateSizeReadsBox(sorted[i])
                 THEN [threw |-> TRUE, list |-> <<>>, kept |-> <<>>]
                 ELSE LET preds == SelectSeq(SelectSeq(sorted, Sized), Floored)
                          nms == NMS(preds, <<>>)
                      IN  IF nms.threw
                          THEN [threw |-> TRUE, list |-> <<>>, kept |-> <<>>]
                          ELSE LET res == Resolve(nms.list, <<>>)
                               IN  [threw |-> res.threw, list |-> res.list,
                                    kept |-> nms.list]

\* ------------------------------------------------------------- state
VARIABLES
    candidates,  \* the candidate map, in insertion (for-in) order: a sequence of
                 \* [key, cls, score, frames, bbox], with three history fields:
                 \* hits, the number of filter calls that matched or created it
                 \* (counted up to CONFIRM_FRAMES); idle, the number of calls
                 \* since it was last marked seen; peak, its streak at the end
                 \* of the last call that marked it seen
    now,         \* the latest value Date.now() has returned
    op,          \* the last operation: "init", "filter", "threw", "reset"
    raw,         \* the rawPreds of the last filter call
    resolved,    \* the resolved list (after step 6) of the last filter call
    nowKeys,     \* the keys marked seen in the last filter call
    steps,       \* per resolved detection of the last call, what step 7 did: the
                 \* detection p, the candidate's key, how ("create", "match",
                 \* "merge", "lock"), its streak and whether p was emitted, and
                 \* the candidate's idle and peak as the call found them
    confirmed,   \* the list the last filter call returned
    evicted,     \* [streak, idle] of the candidates the last call deleted
    run,         \* [det, len]: the last len calls, the first of them on an empty
                 \* map, each had the single detection det as their whole input
    shadow,      \* [cands, confirmed] of a second tracker, constructed anew
                 \* where the first is reset and given the same calls; used:
                 \* a reset has cleared a map that held a confirmed candidate
    probe,       \* [cls, bbox, out, applied]: one evaluation of
                 \* aspectScore(cls, bbox) and, once applied, its result
    loop,        \* detectLoop: [scheduled, the requestAnimationFrame callbacks
                 \* pending; awaiting, the iterations suspended at
                 \* `await state.model.detect`; last, how the last iteration
                 \* went: "none", "idle", "ok", "threw"]
    sw,          \* the service worker: [cache, url -> the cached response or
                 \* NoResponse; last, the last fetch event handled]
    scan         \* steps 1-6 of filter applied to one input after the other:
                 \* [next, the number of inputs done; raw, kept, resolved of the
                 \* last one; swaps, the replacements in resolved in the last
                 \* one; swapped, whether any input so far had one]

\* what the pipeline's two operations leave alone
aside == <<probe, loop, sw, scan>>

vars == <<candidates, now, op, raw, resolved, nowKeys, steps, confirmed, evicted, run,
          shadow, probe, loop, sw, scan>>

\* ------------------------------------------------------------- filter, step 7
\* Math.round(x / 40), x an integer
Round40(x) == (2 * x + 40) \div 80

\* `${p.class}_${Math.round(p.bbox[0] / 40)}_${Math.round(p.bbox[1] / 40)}_${Date.now()}`
NewKey(p, t) == <<p.class, Round40(p.bbox[1]), Round40(p.bbox[2]), t>>

\* candidates[key]: its position in the map, 0 when absent
RECURSIVE Lookup(_, _, _)
Lookup(cands, key, i) ==
    IF i > Len(cands) THEN 0
    ELSE IF cands[i].key = key THEN i
    ELSE Lookup(cands, key, i + 1)

\* the for-in scan for matchedKey and matchedKeyByLocation (positions, 0: null)
RECURSIVE FindMatch(_, _, _, _)
FindMatch(cands, p, i, loc) ==
    IF i > Len(cands) THEN [key |-> 0, loc |-> loc, threw |-> FALSE]
    ELSE IF p.bbox = NoBox THEN [key |-> 0, loc |-> 0, threw |-> TRUE]
    ELSE LET c == cands[i]
         IN  IF c.cls = p.class /\ Gt(iou(c.bbox, p.bbox), EXACT_MATCH_IOU)
             THEN [key |-> i, loc |-> loc, threw |-> FALSE]
             ELSE FindMatch(cands, p, i + 1,
                            IF Gt(iou(c.bbox, p.bbox), SPATIAL_MATCH_IOU) /\ loc = 0
                            THEN i ELSE loc)

\* variant: the 1.3 margin is left out
LockHoldsNoMargin(existing, p) ==
    LET existingFit == aspectScore(existing.cls, p.bbox) * existing.score
        newFit == aspectScore(p.class, p.bbox) * p.score
    IN  newFit < existingFit

\* newFit < existingFit * 1.3
LockHolds(existing, p) ==
    LET existingFit == aspectScore(existing.cls, p.bbox) * existing.score
        newFit == aspectScore(p.class, p.bbox) * p.score
    IN  10 * newFit < 13 * existingFit

\* c.score * 0.6 + p.score * 0.4, to the nearest thousandth
BlendMatch(old, new) == (6 * old + 4 * new + 5) \div 10
\* existing.score * 0.7 + p._origScore * 0.3, to the nearest thousandth
BlendLock(old, orig) == (7 * old + 3 * orig + 5) \div 10

\* variants: confirmed one frame early, one frame late
IsConfirmedEarly(frames) == frames >= CONFIRM_FRAMES - 1
IsConfirmedLate(frames) == frames > CONFIRM_FRAMES
IsConfirmed(frames) == frames >= CONFIRM_FRAMES
IsLocked(frames) == frames >= CLASS_LOCK_FRAMES

\* One iteration of `for (const p of resolved)`.  st: the map, the seen keys,
\* the confirmed list, the clock and the log so far.
TrackOne(st, p) ==
    LET m == FindMatch(st.cands, p, 1, 0)
    IN  IF m.threw \/ (m.key = 0 /\ p.bbox = NoBox)
        THEN [st EXCEPT !.threw = TRUE]
        ELSE
        LET rKey == IF m.key # 0 THEN st.cands[m.key].key ELSE NewKey(p, st.clk)
            clk == IF m.key # 0 THEN st.clk ELSE st.clk + st.adv
            reads == IF m.key # 0 THEN st.reads ELSE st.reads + 1
            at == Lookup(st.cands, rKey, 1)
            existing == st.cands[m.loc]
        IN  IF at = 0 /\ m.loc # 0 /\ IsLocked(existing.frames) /\ LockHolds(existing, p)
            THEN \* the locked candidate keeps its class
                 LET score == BlendLock(existing.score, p.origScore)
                     emit == IsConfirmed(existing.frames)
                 IN  [st EXCEPT
                        !.cands = [st.cands EXCEPT ![m.loc].bbox = p.bbox,
                                                   ![m.loc].score = score],
                        !.nowKeys = st.nowKeys \cup {rKey, existing.key},
                        !.confirmed = IF emit
                                      THEN Append(st.confirmed,
                                                  [p EXCEPT !.class = existing.cls,
                                                            !.score = score])
                                      ELSE st.confirmed,
                        !.clk = clk, !.reads = reads,
                        !.steps = Append(st.steps,
                                         [p |-> p, key |-> existing.key, how |-> "lock",
                                          frames |-> existing.frames, emitted |-> emit,
                                          idle |-> existing.idle,
                                          peak |-> existing.peak])]
            ELSE
            LET cands == IF at = 0
                         THEN Append(st.cands,
                                     [key |-> rKey, cls |-> p.class, score |-> p.score,
                                      frames |-> 1, bbox |-> p.bbox,
                                      hits |-> 1, idle |-> 0, peak |-> 1])
                         ELSE [st.cands EXCEPT
                                 ![at].frames = @ + 1,
                                 ![at].score = BlendMatch(@, p.score),
                                 ![at].bbox = p.bbox,
                                 ![at].hits = IF rKey \in st.nowKeys THEN @
                                              ELSE Min(@ + 1, CONFIRM_FRAMES)]
                 frames == IF at = 0 THEN 1 ELSE st.cands[at].frames + 1
                 emit == IsConfirmed(frames)
            IN  [st EXCEPT
                   !.cands = cands,
                   !.nowKeys = st.nowKeys \cup {rKey},
                   !.confirmed = IF emit THEN Append(st.confirmed, p) ELSE st.confirmed,
                   !.clk = clk, !.reads = reads,
                   !.steps = Append(st.steps,
                                    [p |-> p, key |-> rKey,
                                     how |-> IF at = 0 THEN "create"
                                             ELSE IF m.key # 0 THEN "match" ELSE "merge",
                                     frames |-> frames, emitted |-> emit,
                                     idle |-> IF at = 0 THEN 0 ELSE st.cands[at].idle,
                                     peak |-> IF at = 0 THEN 0 ELSE st.cands[at].peak])]

\* `for (const p of resolved)`: each iteration works on the map the previous
\* one left (the singleton sets bind that state as a value)
RECURSIVE TrackAll(_, _)
TrackAll(st, list) ==
    IF list = <<>> \/ st.threw THEN st
    ELSE CHOOSE out \in { TrackAll(s, rest) :
                            s \in {TrackOne(st, Head(list))},
                            rest \in {Tail(list)} } : TRUE

\* ------------------------------------------------------------- filter, decay
\* variant: a candidate at streak 0 is kept
EvictBelowZero(frames) == frames < 0
Evict(frames) == frames <= 0

\* variant: decay by one
DecayedByOne(c, seen) ==
    IF c.key \in seen THEN [c EXCEPT !.idle = 0, !.peak = c.frames]
    ELSE [c EXCEPT !.frames = @ - 1, !.idle = @ + 1]

\* variant: decay by three
DecayedByThree(c, seen) ==
    IF c.key \in seen THEN [c EXCEPT !.idle = 0, !.peak = c.frames]
    ELSE [c EXCEPT !.frames = @ - 3, !.idle = @ + 1]

\* the candidate after `frames -= DECAY_RATE` when its key is not in nowKeys
Decayed(c, seen) ==
    IF c.key \in seen THEN [c EXCEPT !.idle = 0, !.peak = c.frames]
    ELSE [c EXCEPT !.frames = @ - DECAY_RATE, !.idle = @ + 1]

RECURSIVE Decay(_, _)
Decay(cands, seen) ==
    IF cands = <<>> THEN <<>>
    ELSE LET c == Decayed(Head(cands), seen)
         IN  (IF Evict(c.frames) THEN <<>> ELSE <<c>>) \o Decay(Tail(cands), seen)

\* ------------------------------------------------------------- filter
\* filter(rawPreds, videoWidth, videoHeight) on the map cands; Date.now() returns
\* t0 at its first read and adv more at each further read
\* (the singleton sets bind each stage's result as a value)
filter(cands, rawPreds, videoWidth, videoHeight, t0, adv) ==
    CHOOSE out \in
      { CHOOSE o \in
          { CHOOSE r \in
              { [threw |-> st.threw,
                 cands |-> left,
                 confirmed |-> IF st.threw THEN <<>> ELSE st.confirmed,
                 resolved |-> pipe.list,
                 nowKeys |-> st.nowKeys,
                 steps |-> st.steps,
                 reads |-> st.reads,
                 evicted |-> { [streak |-> st.cands[i].peak,
                                idle |-> st.cands[i].idle + 1] :
                               i \in { j \in 1..Len(st.cands) :
                                         Lookup(left, st.cands[j].key, 1) = 0 } }]
                : left \in {IF st.threw THEN st.cands
                            ELSE Decay(st.cands, st.nowKeys)} } : TRUE
            : st \in {TrackAll([cands |-> cands, nowKeys |-> {}, confirmed |-> <<>>,
                                steps |-> <<>>, clk |-> t0, adv |-> adv, reads |-> 0,
                                threw |-> pipe.threw],
                               pipe.list)} } : TRUE
        : pipe \in {Pipeline(rawPreds, videoWidth, videoHeight)} } : TRUE

\* ------------------------------------------------------------- inputs
\* the frame the boxes are expressed in
Frame == [w |-> 200, h |-> 200]

Det(cls, bbox, score) == [class |-> cls, bbox |-> bbox, score |-> score]

\* three 20 x 30 boxes on one row: iou(BoxA, BoxB) = 12/28, iou(BoxB, BoxC) = 10/30,
\* iou(BoxA, BoxC) = 2/38; all three fall in the same 40-pixel bin
BoxA == <<0, 0, 20, 30>>
BoxB == <<8, 0, 20, 30>>
BoxC == <<18, 0, 20, 30>>
\* a 30 x 20 box: iou(BoxA, BoxW) = 400/800
BoxW == <<0, 0, 30, 20>>
\* a degenerate box of zero width
BoxZero == <<100, 100, 0, 30>>

\* the rawPreds of one call: a scene of cups and a bowl
Frames ==
    { <<>>,
      <<Det("cup", BoxA, 500)>>,
      <<Det("bowl", BoxA, 700)>>,
      <<Det("cup", BoxA, 500), Det("cup", BoxC, 500)>>,
      <<Det("cup", BoxC, 500), Det("bowl", BoxB, 900)>> }

\* the scene for the tracker run beside a freshly constructed one
FramesReset ==
    { <<>>,
      <<Det("cup", BoxA, 500)>>,
      <<Det("cup", BoxA, 500), Det("cup", BoxC, 500)>> }

\* overlapping detections of a class that is in no confusion group
FramesOverlap ==
    { <<>>,
      <<Det("person", BoxB, 650), Det("person", BoxC, 650)>>,
      <<Det("person", BoxA, 650), Det("person", BoxB, 650), Det("person", BoxC, 600)>> }

\* a valid detection next to a malformed one
FramesMalformed ==
    { <<>>,
      <<Det("cup", BoxA, 500)>>,
      <<Det("cup", BoxA, 500), Det("person", BoxZero, 900)>>,
      <<Det("cup", BoxA, 500), Det("person", NoBox, 900)>> }

\* a cup and challengers of other classes at its region
FramesLock ==
    { <<Det("cup", BoxA, 500)>>,
      <<Det("bowl", BoxW, 650)>>,
      <<Det("person", BoxA, 500)>> }

\* a cup, and a challenger next to a second cup
FramesLockPair ==
    { <<Det("cup", BoxA, 500)>>,
      <<Det("person", BoxB, 600), Det("cup", BoxC, 500)>> }

\* ------------------------------------------------------------- actions
\* no response: a cache miss, a failed fetch
NoResponse == [status |-> 0, body |-> 0]

\* a URL is the sequence of its parts between slashes
\* the local assets cached at installation (here: one of them)
ASSETS == << <<".", "index.html">> >>

\* TensorFlow and COCO-SSD, cached on first use
CDN_ASSETS ==
    << <<"https:", "cdn.jsdelivr.net", "tfjs", "dist", "tf.min.js">>,
       <<"https:", "cdn.jsdelivr.net", "coco-ssd", "dist", "coco-ssd.min.js">> >>

\* the URLs the pages request: a local asset, a local file not in ASSETS, the two
\* scripts of the CDN, and a copy of one of them kept next to the pages
Urls ==
    { ASSETS[1], <<".", "photo.png">>, CDN_ASSETS[1], CDN_ASSETS[2],
      <<".", "vendor", "tf.min.js">> }

\* the module-level state of the pipeline, before any call
InitPipeline ==
    /\ candidates = <<>>
    /\ now = 0
    /\ op = "init"
    /\ raw = <<>>
    /\ resolved = <<>>
    /\ nowKeys = {}
    /\ steps = <<>>
    /\ confirmed = <<>>
    /\ evicted = {}
    /\ run = [det |-> <<>>, len |-> 0]
    /\ shadow = [cands |-> <<>>, confirmed |-> <<>>, used |-> FALSE]

\* detectLoop() has been called once (init); nothing is cached yet
InitAside ==
    /\ probe = [cls |-> "person", bbox |-> <<0, 0, 0, 0>>, out |-> 0, applied |-> FALSE]
    /\ loop = [scheduled |-> 1, awaiting |-> 0, last |-> "none", tick |-> 0]
    /\ sw = [installed |-> FALSE,
             cache |-> [u \in Urls |-> NoResponse],
             last |-> [url |-> <<>>, hit |-> NoResponse, net |-> NoResponse,
                       fetched |-> FALSE, response |-> NoResponse]]
    /\ scan = [next |-> 0, raw |-> <<>>, kept |-> <<>>, resolved |-> <<>>,
               swaps |-> 0, swapped |-> FALSE]

Init == InitPipeline /\ InitAside

\* the history of identical single-detection calls, after a call with rawPreds
\* on the map cands
NextRun(cands, rawPreds) ==
    IF Len(rawPreds) # 1 THEN [det |-> <<>>, len |-> 0]
    ELSE IF cands = <<>> THEN [det |-> rawPreds, len |-> 1]
    ELSE IF run.len > 0 /\ run.det = rawPreds
         THEN [det |-> rawPreds, len |-> Min(run.len + 1, CONFIRM_FRAMES + 1)]
         ELSE [det |-> <<>>, len |-> 0]

\* DetectionPipeline.filter(rawPreds, Frame.w, Frame.h), called gap ms after the
\* last clock reading; cap bounds the streaks
FilterCall(rawPreds, gap, adv, cap) ==
    /\ now + gap <= MaxClock
    /\ adv = 0 \/ Len(rawPreds) >= 2
    /\ \E out \in {filter(candidates, rawPreds, Frame.w, Frame.h, now + gap, adv)} :
        LET last == IF out.reads = 0 THEN now + gap
                    ELSE now + gap + adv * (out.reads - 1)
        IN  /\ last <= MaxClock
            /\ adv = 0 \/ out.reads >= 2
            /\ \A i \in 1..Len(out.cands) : out.cands[i].frames <= cap
            /\ candidates' = out.cands
            /\ now' = last
            /\ op' = IF out.threw THEN "threw" ELSE "filter"
            /\ raw' = rawPreds
            /\ resolved' = out.resolved
            /\ nowKeys' = out.nowKeys
            /\ steps' = out.steps
            /\ confirmed' = out.confirmed
            /\ evicted' = out.evicted
            /\ run' = IF out.threw THEN [det |-> <<>>, len |-> 0]
                      ELSE NextRun(candidates, rawPreds)

FilterOver(frames, cap) ==
    \E rawPreds \in frames, gap \in {0, 1}, adv \in {0, 1} :
        FilterCall(rawPreds, gap, adv, cap) /\ UNCHANGED shadow /\ UNCHANGED aside

Filter == FilterOver(Frames, MaxStreak)

\* variant: only the unconfirmed candidates are deleted
ClearedUnconfirmed(cands) ==
    LET Stays(c) == IsConfirmed(c.frames) IN SelectSeq(cands, Stays)

\* for (const key in candidates) delete candidates[key]
Cleared(cands) == <<>>

\* DetectionPipeline.reset()
ResetCall ==
    /\ candidates' = Cleared(candidates)
    /\ op' = "reset"
    /\ raw' = <<>>
    /\ resolved' = <<>>
    /\ nowKeys' = {}
    /\ steps' = <<>>
    /\ confirmed' = <<>>
    /\ evicted' = {}
    /\ run' = [det |-> <<>>, len |-> 0]
    /\ UNCHANGED now

Reset == ResetCall /\ UNCHANGED shadow /\ UNCHANGED aside

Next == Filter \/ Reset

Spec == Init /\ [][Next]_vars

\* the same two operations on the other scenes
FilterOverlap == FilterOver(FramesOverlap, MaxStreak)
NextOverlap == FilterOverlap \/ Reset
SpecOverlap == Init /\ [][NextOverlap]_vars

FilterMalformed == FilterOver(FramesMalformed, MaxStreak)
NextMalformed == FilterMalformed \/ Reset
SpecMalformed == Init /\ [][NextMalformed]_vars

FilterLock == FilterOver(FramesLock, MaxLockStreak)
NextLock == FilterLock \/ Reset
SpecLock == Init /\ [][NextLock]_vars

\* the two operations on a tracker and, beside it, on a tracker constructed
\* anew at each reset
FilterBoth ==
    \E rawPreds \in FramesReset, gap \in {0, 1}, adv \in {0, 1} :
        /\ FilterCall(rawPreds, gap, adv, MaxStreak)
        /\ \E out \in {filter(shadow.cands, rawPreds, Frame.w, Frame.h, now + gap, adv)} :
               shadow' = [shadow EXCEPT !.cands = out.cands,
                                        !.confirmed = out.confirmed]
        /\ UNCHANGED aside

ResetBoth ==
    /\ ResetCall
    /\ shadow' = [cands |-> <<>>, confirmed |-> <<>>,
                  used |-> shadow.used
                           \/ \E i \in 1..Len(candidates) :
                                 IsConfirmed(candidates[i].frames)]
    /\ UNCHANGED aside

NextReset == FilterBoth \/ ResetBoth
SpecReset == Init /\ [][NextReset]_vars

FilterLockPair == FilterOver(FramesLockPair, MaxLockStreak)
NextLockPair == FilterLockPair \/ Reset
SpecLockPair == Init /\ [][NextLockPair]_vars

\* ------------------------------------------------------------- properties
Keys(cands) == { cands[i].key : i \in 1..Len(cands) }
CandidateAt(cands, key) == cands[Lookup(cands, key, 1)]

PositiveArea(bbox) == bbox # NoBox /\ bbox[3] > 0 /\ bbox[4] > 0

\* d passes size validation and the score floor
Passes(d) ==
    /\ PositiveArea(d.bbox)
    /\ validateSize(Scored(d), Frame.w * Frame.h)
    /\ Scored(d).score >= SCORE_FLOOR

\* C1. Confirmation delay: when one detection that passes size validation and
\* the score floor is the whole input of consecutive calls, the first of them
\* on an empty map, calls 1 to 7 return the empty list and call 8 returns the
\* detection.
C1_ConfirmationDelay ==
    run.len >= 1 =>
        /\ run.len < CONFIRM_FRAMES => confirmed = <<>>
        /\ (run.len = CONFIRM_FRAMES /\ Passes(run.det[1]))
               => confirmed = <<Scored(run.det[1])>>

C1_Witness ==
    /\ run.len = CONFIRM_FRAMES
    /\ Passes(run.det[1])
    /\ confirmed # <<>>

\* C2. A detection is emitted only if its candidate has been matched (or
\* created) in at least CONFIRM_FRAMES separate filter calls.
C2_EmittedAfterEightCalls ==
    op = "filter" =>
        \A i \in 1..Len(steps) :
            steps[i].emitted =>
                CandidateAt(candidates, steps[i].key).hits >= CONFIRM_FRAMES

\* no two detections of the list overlap with an IoU above the threshold t
NoOverlapAbove(list, t) ==
    \A i, j \in 1..Len(list) :
        i < j => ~Gt(iou(list[i].bbox, list[j].bbox), t)

\* C5. NMS invariant: any two detections of the resolved list, and any two of
\* the confirmed list, have IoU <= NMS_THRESHOLD.
C5_NMSInvariant ==
    op = "filter" =>
        /\ NoOverlapAbove(resolved, NMS_THRESHOLD)
        /\ NoOverlapAbove(confirmed, NMS_THRESHOLD)

C5_Witness ==
    /\ op = "filter"
    /\ \E i, j \in 1..Len(raw) :
          i < j /\ Gt(iou(raw[i].bbox, raw[j].bbox), NMS_THRESHOLD)
    /\ Len(resolved) >= 2
    /\ Len(confirmed) >= 2

\* one filter call, seen from the map before it and the map after it: a
\* candidate not marked seen loses exactly DECAY_RATE and is deleted iff that
\* leaves it at 0 or less; a candidate marked seen stays and is not reduced
DecayStep ==
    op' = "filter" =>
        \A i \in 1..Len(candidates) :
            LET c == candidates[i]
            IN  IF c.key \in nowKeys'
                THEN /\ c.key \in Keys(candidates')
                     /\ CandidateAt(candidates', c.key).frames >= c.frames
                ELSE /\ c.key \in Keys(candidates') <=> c.frames - DECAY_RATE > 0
                     /\ c.key \in Keys(candidates') =>
                            LET d == CandidateAt(candidates', c.key)
                            IN  /\ d.frames = c.frames - DECAY_RATE
                                /\ d.cls = c.cls /\ d.bbox = c.bbox /\ d.score = c.score

\* a candidate last seen at streak s is live while fewer than ceil(s/2) calls
\* have left it unmatched, and is deleted by the ceil(s/2)-th
EvictionCount ==
    /\ \A i \in 1..Len(candidates) :
          /\ candidates[i].frames = candidates[i].peak - DECAY_RATE * candidates[i].idle
          /\ DECAY_RATE * candidates[i].idle < candidates[i].peak
    /\ \A e \in evicted :
          /\ DECAY_RATE * e.idle >= e.streak
          /\ DECAY_RATE * (e.idle - 1) < e.streak

\* C6. Decay and eviction: every call reduces each unseen candidate by exactly
\* DECAY_RATE and deletes it iff the result is <= 0, and leaves the seen ones
\* unreduced; so a candidate at streak s that is never matched again is
\* deleted by exactly the ceil(s/2)-th further call (streak 8: the 4th).
C6_DecayAndEviction == [][DecayStep]_vars /\ []EvictionCount

C6_Witness == \E e \in evicted : e.streak = CONFIRM_FRAMES /\ e.idle = 4

\* C9. Between calls every candidate in the map has streak >= 1.
C9_LiveStreakPositive ==
    \A i \in 1..Len(candidates) : candidates[i].frames >= 1

C9_Witness ==
    /\ op = "filter"
    /\ evicted # {}
    /\ \E i \in 1..Len(candidates) :
          candidates[i].frames = 1 /\ candidates[i].idle > 0

\* the fits of the class-lock contest, in millionths
ExistingFit(c, p) == aspectScore(c.cls, p.bbox) * c.score
NewFit(p) == aspectScore(p.class, p.bbox) * p.score

\* list holds a detection of class cls with the box bbox
EmitsAt(list, cls, bbox) ==
    \E k \in 1..Len(list) : list[k].class = cls /\ list[k].bbox = bbox

\* the map as it stands when the j-th resolved detection of the call that
\* leads to the next state is processed (the clock only shapes new keys)
MapWhen(j) ==
    TrackAll([cands |-> candidates, nowKeys |-> {}, confirmed |-> <<>>,
              steps |-> <<>>, clk |-> now, adv |-> 0, reads |-> 0, threw |-> FALSE],
             SubSeq(resolved', 1, j - 1)).cands

\* C3, as claimed. Class lock: a candidate of class C with streak >= 12 and a
\* resolved detection of another class D at its region (IoU > 0.4) with
\* newFit <= existingFit * 1.3: the output holds a class-C detection for the
\* region and no class-D one.
C3_ClassLockAsClaimed ==
    [][ op' = "filter" =>
          \A i \in 1..Len(candidates), j \in 1..Len(resolved') :
              LET c == candidates[i]
                  p == resolved'[j]
              IN  ( /\ c.frames >= CLASS_LOCK_FRAMES
                    /\ c.cls # p.class
                    /\ Gt(iou(c.bbox, p.bbox), SPATIAL_MATCH_IOU)
                    /\ 10 * NewFit(p) <= 13 * ExistingFit(c, p) )
                  => /\ EmitsAt(confirmed', c.cls, p.bbox)
                     /\ ~EmitsAt(confirmed', p.class, p.bbox) ]_vars

\* C3, amended. When a resolved detection p of class D is processed, if the map
\* holds no candidate of class D, the first candidate in map order with
\* IoU > 0.4 to p is a candidate of another class C with streak >= 12, and
\* newFit < existingFit * 1.3 strictly, then the output holds a class-C
\* detection with p's box and no class-D detection with it.
C3_ClassLock ==
    [][ op' = "filter" =>
          \A j \in 1..Len(resolved') :
              LET p == resolved'[j]
                  map == MapWhen(j)
                  m == FindMatch(map, p, 1, 0)
              IN  ( /\ \A i \in 1..Len(map) : map[i].cls # p.class
                    /\ m.loc # 0
                    /\ map[m.loc].frames >= CLASS_LOCK_FRAMES
                    /\ 10 * NewFit(p) < 13 * ExistingFit(map[m.loc], p) )
                  => /\ EmitsAt(confirmed', map[m.loc].cls, p.bbox)
                     /\ ~EmitsAt(confirmed', p.class, p.bbox) ]_vars

C3_Witness ==
    /\ op = "filter"
    /\ Len(steps) >= 1 /\ steps[1].how = "lock"
    /\ Len(confirmed) >= 1
    /\ confirmed[1].class # steps[1].p.class
    /\ confirmed[1].bbox = steps[1].p.bbox

\* C4. Confusion invariant: no two detections of the confirmed list have
\* classes of one confusion group and IoU > CONFUSION_THRESHOLD.
C4_ConfusionInvariant ==
    op = "filter" =>
        \A i, j \in 1..Len(confirmed) :
            ( /\ i < j
              /\ confuseMap(confirmed[i].class) # {}
              /\ confuseMap(confirmed[i].class) = confuseMap(confirmed[j].class) )
            => ~Gt(iou(confirmed[i].bbox, confirmed[j].bbox), CONFUSION_THRESHOLD)

\* C7. Reset clears hysteresis: after reset() the map is empty, and from then
\* on every call returns what a tracker that was never used returns.
C7_ResetClearsHysteresis ==
    /\ op = "reset" => candidates = <<>>
    /\ confirmed = shadow.confirmed

C7_Witness ==
    /\ shadow.used
    /\ op = "filter"
    /\ confirmed # <<>>

\* C8. Malformed items: a call whose rawPreds holds a malformed item (here a
\* zero-area or a missing bbox) does not abort, does not process the item, and
\* returns and leaves what the call without the malformed items does.
C8_MalformedDropped ==
    [][ op' \in {"filter", "threw"} =>
          /\ op' # "threw"
          /\ \A i \in 1..Len(steps') : PositiveArea(steps'[i].p.bbox)
          /\ \E gap \in {0, 1}, adv \in {0, 1} :
                LET WellFormed(d) == PositiveArea(d.bbox)
                    out == filter(candidates, SelectSeq(raw', WellFormed),
                                  Frame.w, Frame.h, now + gap, adv)
                IN  out.cands = candidates' /\ out.confirmed = confirmed' ]_vars

\* class and box of the detections of a list
ClassAndBox(list) ==
    [k \in 1..Len(list) |-> [class |-> list[k].class, bbox |-> list[k].bbox]]

\* the detections step 7 has to emit: those whose candidate stood at
\* CONFIRM_FRAMES or more after their update, under the locked class where
\* the lock overrode theirs
RECURSIVE DueEmits(_, _)
DueEmits(log, cands) ==
    IF log = <<>> THEN <<>>
    ELSE LET s == Head(log)
         IN  (IF s.frames >= CONFIRM_FRAMES
              THEN << [class |-> IF s.how = "lock" THEN CandidateAt(cands, s.key).cls
                                 ELSE s.p.class,
                       bbox |-> s.p.bbox] >>
              ELSE <<>>) \o DueEmits(Tail(log), cands)

\* C10. A resolved detection is appended to the output (under the locked
\* class on a lock override) iff the candidate it matched or created has
\* streak >= CONFIRM_FRAMES after the update.
C10_EmittedIffConfirmed ==
    op = "filter" =>
        /\ ClassAndBox(confirmed) = DueEmits(steps, candidates)
        /\ \A i \in 1..Len(steps) :
              (\A j \in (i + 1)..Len(steps) : steps[j].key # steps[i].key)
              => CandidateAt(candidates, steps[i].key).frames = steps[i].frames

C10_Witness ==
    /\ op = "filter"
    /\ \E i \in 1..Len(steps) : steps[i].how = "lock" /\ steps[i].frames >= CONFIRM_FRAMES
    /\ \E i \in 1..Len(steps) : steps[i].how = "match" /\ steps[i].frames >= CONFIRM_FRAMES
    /\ Len(confirmed) = 2

\* ------------------------------------------------------------- the fit of the challenger
\* a cup, and a laptop at its region whose box is taller than the laptop hint
\* allows (aspect multiplier 0.782)
FramesFit ==
    { <<Det("cup", BoxA, 500)>>,
      <<Det("laptop", BoxA, 900)>> }

FilterFit == FilterOver(FramesFit, MaxLockStreak)
NextFit == FilterFit \/ Reset
SpecFit == Init /\ [][NextFit]_vars

\* C11. The tie-break is aspectScore * origScore in both places: in confusion
\* resolution, and in the class-lock contest, where the lock is kept exactly
\* when the challenger's aspect multiplier times its raw confidence is below
\* 1.3 times the fit of the locked candidate.
C11_TieBreakFit ==
    [][ op' = "filter" =>
          \A j \in 1..Len(steps') :
              LET p == steps'[j].p
                  map == MapWhen(j)
                  m == FindMatch(map, p, 1, 0)
              IN  ( /\ m.key = 0 /\ m.loc # 0
                    /\ \A i \in 1..Len(map) : map[i].cls # p.class
                    /\ map[m.loc].frames >= CLASS_LOCK_FRAMES )
                  => ( steps'[j].how = "lock"
                       <=> 10 * (aspectScore(p.class, p.bbox) * p.origScore)
                              < 13 * ExistingFit(map[m.loc], p) ) ]_vars

\* ------------------------------------------------------------- fresh keys
\* a 20 x 30 box in the 40-pixel bin of BoxA: iou(BoxA, BoxY) = 150/1050,
\* iou(BoxC, BoxY) = 510/690
BoxY == <<15, 0, 20, 30>>

\* a cup, and two people in one coordinate bin, the second at the cup's region
FramesCollide ==
    { <<Det("cup", BoxC, 500)>>,
      <<Det("person", BoxA, 650), Det("person", BoxY, 600)>> }

FilterCollide == FilterOver(FramesCollide, MaxLockStreak)
NextCollide == FilterCollide \/ Reset
SpecCollide == Init /\ [][NextCollide]_vars

\* C12. Lock-win step: a detection p without exact match whose spatial-only
\* match has streak >= 12 and newFit < existingFit * 1.3 makes the locked
\* candidate take p's bbox and the score 0.7 * old + 0.3 * p.origScore, marks
\* it seen, leaves its streak and class alone, creates no candidate for p, and
\* is emitted under the locked class with the updated score.
C12_LockWinStep ==
    [][ op' = "filter" =>
          \A j \in 1..Len(resolved') :
              LET p == resolved'[j]
                  map == MapWhen(j)
                  m == FindMatch(map, p, 1, 0)
                  old == map[m.loc]
                  score == BlendLock(old.score, p.origScore)
                  last == \A k \in (j + 1)..Len(steps') : steps'[k].key # old.key
              IN  ( /\ m.key = 0 /\ m.loc # 0
                    /\ old.frames >= CLASS_LOCK_FRAMES
                    /\ 10 * NewFit(p) < 13 * ExistingFit(old, p) )
                  => /\ steps'[j].how = "lock" /\ steps'[j].key = old.key
                     /\ old.key \in nowKeys'
                     /\ old.key \in Keys(candidates')
                     /\ CandidateAt(candidates', old.key).cls = old.cls
                     /\ last => /\ CandidateAt(candidates', old.key).frames = old.frames
                                /\ CandidateAt(candidates', old.key).bbox = p.bbox
                                /\ CandidateAt(candidates', old.key).score = score
                     /\ \A i \in 1..Len(candidates') :
                           candidates'[i].key \notin Keys(candidates)
                           => ~(candidates'[i].cls = p.class /\ candidates'[i].bbox = p.bbox)
                     /\ \E k \in 1..Len(confirmed') :
                           /\ confirmed'[k].class = old.cls
                           /\ confirmed'[k].bbox = p.bbox
                           /\ confirmed'[k].score = score ]_vars

\* C13. Fresh identity: a detection without exact match and without lock win
\* is stored under a key that no candidate live at that moment has, neither
\* one the call found in the map nor one the call created before.
C13_FreshIdentity ==
    [][ op' = "filter" =>
          \A i \in 1..Len(steps') :
              steps'[i].how \in {"create", "merge"}
              => /\ steps'[i].key \notin Keys(candidates)
                 /\ \A k \in 1..(i - 1) : steps'[k].key # steps'[i].key ]_vars

\* ------------------------------------------------------------- two clocks
\* two people in one coordinate bin
FramesTwin ==
    { <<>>,
      <<Det("person", BoxA, 650), Det("person", BoxY, 600)>> }

\* the same call on two trackers: the first reads one clock value throughout
\* the call, the clock of the second advances by adv2 between its readings
FilterTwin ==
    \E rawPreds \in FramesTwin, gap \in {0, 1}, adv2 \in {0, 1} :
        /\ FilterCall(rawPreds, gap, 0, MaxStreak)
        /\ \E out \in {filter(shadow.cands, rawPreds, Frame.w, Frame.h, now + gap, adv2)} :
               /\ now + gap + adv2 * (Len(rawPreds) - 1) <= MaxClock
               /\ \A i \in 1..Len(out.cands) : out.cands[i].frames <= MaxStreak
               /\ shadow' = [shadow EXCEPT !.cands = out.cands,
                                           !.confirmed = out.confirmed]
        /\ UNCHANGED aside

NextTwin == FilterTwin \/ ResetBoth
SpecTwin == Init /\ [][NextTwin]_vars

\* C14. Determinism with respect to time: two trackers that start empty and
\* are given the same calls return the same confirmed list at every call,
\* whatever the clock reads.
C14_TimeDeterminism == confirmed = shadow.confirmed

\* ------------------------------------------------------------- aspect override
\* a cup-shaped region reported as a cup and, with more confidence, as a bowl
BoxCup == <<100, 100, 40, 60>>
BoxBowl == <<102, 101, 39, 58>>

FramesAspect ==
    { <<>>,
      <<Det("bowl", BoxBowl, 800)>>,
      <<Det("cup", BoxCup, 600), Det("bowl", BoxBowl, 800)>>,
      <<Det("bowl", BoxBowl, 800), Det("cup", BoxCup, 600)>> }

FilterAspect == FilterOver(FramesAspect, MaxStreak)
NextAspect == FilterAspect \/ Reset
SpecAspect == Init /\ [][NextAspect]_vars

\* raw score times aspect multiplier, in thousandths
AdjustedScore(d) == (d.score * aspectScore(d.class, d.bbox)) \div 1000

\* d passes size validation, and the floor with its adjusted score
Survives(d) ==
    /\ validateSize(d, Frame.w * Frame.h)
    /\ AdjustedScore(d) >= SCORE_FLOOR

\* C15. Aspect override: of two detections that overlap above the NMS
\* threshold the one with the lower adjusted score is not in the resolved
\* list, whatever the raw scores; for cup [100,100,40,60] 0.6 and bowl
\* [102,101,39,58] 0.8 the resolved list is the cup alone.
C15_AspectOverride ==
    op = "filter" =>
        /\ \A i, j \in 1..Len(raw) :
              ( /\ Survives(raw[i]) /\ Survives(raw[j])
                /\ Gt(iou(raw[i].bbox, raw[j].bbox), NMS_THRESHOLD)
                /\ AdjustedScore(raw[i]) > AdjustedScore(raw[j]) )
              => ~EmitsAt(resolved, raw[j].class, raw[j].bbox)
        /\ { raw[i] : i \in 1..Len(raw) }
               = { Det("cup", BoxCup, 600), Det("bowl", BoxBowl, 800) }
           => ClassAndBox(resolved) = << [class |-> "cup", bbox |-> BoxCup] >>

C15_Witness ==
    /\ op = "filter"
    /\ raw = << Det("bowl", BoxBowl, 800), Det("cup", BoxCup, 600) >>
    /\ Len(resolved) = 1 /\ resolved[1].class = "cup" /\ resolved[1].score = 600
    /\ confirmed # <<>>

\* ------------------------------------------------------------- score floor
\* a cup, and laptops at its region whose box costs them the multiplier
\* 0.782: one that stays above the floor, one (elsewhere) that falls below it
BoxFar == <<100, 100, 20, 30>>

FramesFloor ==
    { <<Det("cup", BoxA, 500)>>,
      <<Det("laptop", BoxA, 900)>>,
      <<Det("cup", BoxA, 500), Det("laptop", BoxFar, 550)>> }

FilterFloor == FilterOver(FramesFloor, MaxLockStreak)
NextFloor == FilterFloor \/ Reset
SpecFloor == Init /\ [][NextFloor]_vars

\* C16. Score floor: with raw scores in [0, 1], every detection that reaches
\* the tracker has adjusted score >= 0.45, every live candidate's score is in
\* [0.45, 1], and every emitted detection has score >= 0.45.
C16_ScoreFloor ==
    /\ \A i \in 1..Len(resolved) : resolved[i].score >= SCORE_FLOOR
    /\ \A i \in 1..Len(steps) : steps[i].p.score >= SCORE_FLOOR
    /\ \A i \in 1..Len(candidates) :
          candidates[i].score >= SCORE_FLOOR /\ candidates[i].score <= 1000
    /\ \A i \in 1..Len(confirmed) : confirmed[i].score >= SCORE_FLOOR

C16_Witness ==
    /\ op = "filter"
    /\ Len(steps) = 1 /\ steps[1].how = "lock"
    /\ Len(confirmed) = 1 /\ confirmed[1].class = "cup" /\ confirmed[1].score > 500
    /\ \E i \in 1..Len(candidates) :
          candidates[i].cls = "cup" /\ candidates[i].score = confirmed[1].score

\* ------------------------------------------------------------- aspectScore alone
\* the classes aspectScore is evaluated on: those with a hint and one without
ProbeClasses == DOMAIN ASPECT_HINTS \cup {"person"}

InitProbe ==
    /\ InitPipeline
    /\ loop = [scheduled |-> 1, awaiting |-> 0, last |-> "none", tick |-> 0]
    /\ sw = [installed |-> FALSE,
             cache |-> [u \in Urls |-> NoResponse],
             last |-> [url |-> <<>>, hit |-> NoResponse, net |-> NoResponse,
                       fetched |-> FALSE, response |-> NoResponse]]
    /\ scan = [next |-> 0, raw |-> <<>>, kept |-> <<>>, resolved |-> <<>>,
               swaps |-> 0, swapped |-> FALSE]
    /\ \E cls \in ProbeClasses, w \in 0..MaxSide, h \in 0..MaxSide :
          probe = [cls |-> cls, bbox |-> <<0, 0, w, h>>, out |-> 0, applied |-> FALSE]

\* aspectScore(cls, bbox)
ApplyAspectScore ==
    /\ ~probe.applied
    /\ probe' = [probe EXCEPT !.out = aspectScore(probe.cls, probe.bbox),
                              !.applied = TRUE]
    /\ UNCHANGED <<candidates, now, op, raw, resolved, nowKeys, steps, confirmed,
                   evicted, run, shadow, loop, sw, scan>>

NextProbe == ApplyAspectScore
SpecProbe == InitProbe /\ [][NextProbe]_vars

\* C17. aspectScore(cls, bbox) is 1.0 when cls has no hint or h/w lies in
\* [min, max], 0.5 when w = 0, and otherwise max(0.3, 1 - distance * weight * 3)
\* with distance the fractional distance outside the nearer bound; it lies in
\* [0.3, 1.0], so the adjusted score never exceeds the raw score.
C17_AspectScore ==
    probe.applied =>
        LET w == probe.bbox[3]
            h == probe.bbox[4]
            r == probe.out
        IN  /\ r >= 300 /\ r <= 1000
            /\ \A score \in {0, 450, 1000} : (score * r) \div 1000 <= score
            /\ probe.cls \notin DOMAIN ASPECT_HINTS => r = 1000
            /\ probe.cls \in DOMAIN ASPECT_HINTS =>
                  LET hint == ASPECT_HINTS[probe.cls]
                      below == 100 * h < hint.min * w
                      above == 100 * h > hint.max * w
                      \* distance = num / den
                      num == IF below THEN hint.min * w - 100 * h ELSE 100 * h - hint.max * w
                      den == IF below THEN hint.min * w ELSE hint.max * w
                      \* distance * weight * 3, in thousandths, is pen / den
                      pen == num * hint.weight * 30
                  IN  /\ w = 0 => r = 500
                      /\ (w > 0 /\ ~below /\ ~above) => r = 1000
                      /\ (w > 0 /\ (below \/ above)) =>
                            IF pen >= 700 * den THEN r = 300
                            ELSE /\ (1000 - r) * den <= pen
                                 /\ pen < (1000 - r + 1) * den

C17_Witness ==
    /\ probe.applied
    /\ probe.cls = "bowl"
    /\ probe.bbox[3] > 0
    /\ probe.out > 300 /\ probe.out < 1000

\* ------------------------------------------------------------- detectLoop
\* what model.detect resolves to: nothing, a cup, a cup and a prediction without a box
FramesLoop ==
    { <<>>,
      <<Det("cup", BoxA, 500)>>,
      <<Det("cup", BoxA, 500), Det("person", NoBox, 900)>> }

\* variant: an exception leaves the function before the last line
RescheduledUnlessThrown(path) == IF path = "threw" THEN 0 ELSE 1

\* the requestAnimationFrame(detectLoop) calls of one iteration that ends on path:
\* "idle" (model missing or detection paused), "ok", "threw" (caught, frame skipped)
Rescheduled(path) == 1

\* the iteration ends on path
LoopFinish(path) ==
    [loop EXCEPT !.awaiting = @ - 1,
                 !.scheduled = @ + Rescheduled(path),
                 !.last = path]

\* the browser runs a scheduled detectLoop up to its return or its await;
\* ready is state.model && state.detecting
LoopEnter ==
    /\ loop.scheduled > 0
    /\ \E ready \in BOOLEAN :
          loop' = IF ready
                  THEN [loop EXCEPT !.scheduled = @ - 1,
                                    !.awaiting = @ + 1,
                                    !.tick = 1 - @]
                  ELSE [loop EXCEPT !.scheduled = @ - 1 + Rescheduled("idle"),
                                    !.last = "idle",
                                    !.tick = 1 - @]
    /\ UNCHANGED <<candidates, now, op, raw, resolved, nowKeys, steps, confirmed,
                   evicted, run, shadow, probe, sw, scan>>

\* model.detect settles and detectLoop runs from the await to its end
LoopResume ==
    /\ loop.awaiting > 0
    /\ \/ \* model.detect rejects
          /\ loop' = LoopFinish("threw")
          /\ UNCHANGED <<candidates, now, op, raw, resolved, nowKeys, steps,
                         confirmed, evicted, run>>
       \/ \* model.detect resolves; filter runs, then the rendering
          \E rawPreds \in FramesLoop, gap \in {0, 1}, adv \in {0, 1},
             rendered \in BOOLEAN :
             /\ FilterCall(rawPreds, gap, adv, MaxStreak)
             /\ loop' = LoopFinish(IF op' = "threw" \/ ~rendered
                                   THEN "threw" ELSE "ok")
    /\ UNCHANGED <<shadow, probe, sw, scan>>

NextLoop == LoopEnter \/ LoopResume \/ Reset

\* the browser runs every scheduled callback, and model.detect settles
SpecLoop ==
    Init /\ [][NextLoop]_vars /\ WF_vars(LoopEnter) /\ WF_vars(LoopResume)

\* C18. Every iteration of detectLoop schedules exactly one next iteration, on
\* every path (idle, completed, exception caught): there is always exactly one
\* iteration, scheduled or suspended at its await, and iterations keep starting.
C18_OneNextIteration ==
    /\ [](loop.scheduled + loop.awaiting = 1)
    /\ []<>(loop.tick = 0) /\ []<>(loop.tick = 1)

\* filter threw inside an iteration, and the next iteration is scheduled
C18_Witness ==
    /\ op = "threw"
    /\ loop.last = "threw"
    /\ loop.scheduled = 1

\* ------------------------------------------------------------- service worker
\* the responses of the network: a status and the version of the content
Responses == [status : {200, 404}, body : {1, 2}]

\* a.split('/').pop()
FileName(a) == a[Len(a)]

\* url.includes(name), on the parts of the URL
Includes(url, name) == \E i \in 1..Len(url) : url[i] = name

\* CDN_ASSETS.some(a => url.includes(a.split('/').pop()))
IsCDN(url) == \E k \in 1..Len(CDN_ASSETS) : Includes(url, FileName(CDN_ASSETS[k]))

\* variant: the network is tried first for local assets too
LocalResponseNetworkFirst(cached, net) == IF net # NoResponse THEN net ELSE cached

\* caches.match(request).then(cached => cached ? cached : fetch(request))
LocalResponse(cached, net) == IF cached # NoResponse THEN cached ELSE net

\* the local branch calls fetch only on a cache miss
LocalFetches(cached) == cached = NoResponse

\* the local branch stores a fetched response of status 200
LocalStored(cached, net) ==
    IF LocalFetches(cached) /\ net # NoResponse /\ net.status = 200 THEN net ELSE cached

\* variant: the cache is tried first for the CDN too
CDNResponseCacheFirst(cached, net) == IF cached # NoResponse THEN cached ELSE net

\* fetch(request).then(response => response).catch(() => caches.match(request))
CDNResponse(cached, net) == IF net # NoResponse THEN net ELSE cached

\* the CDN branch stores every response the network gives
CDNStored(cached, net) == IF net # NoResponse THEN net ELSE cached

\* install: cache.addAll(ASSETS) stores all of them or, if one fetch fails or is
\* not ok, none
Install ==
    /\ ~sw.installed
    /\ \E ok \in BOOLEAN, body \in {1, 2} :
          sw' = [sw EXCEPT
                   !.installed = ok,
                   !.cache = [u \in Urls |->
                                IF ok /\ (\E k \in 1..Len(ASSETS) : ASSETS[k] = u)
                                THEN [status |-> 200, body |-> body]
                                ELSE @[u]]]
    /\ UNCHANGED <<candidates, now, op, raw, resolved, nowKeys, steps, confirmed,
                   evicted, run, shadow, probe, loop, scan>>

\* the fetch event of a request for url, net being what the network answers when
\* asked (NoResponse: the fetch fails); the cache.put the handler starts is done
FetchEvent ==
    /\ sw.installed
    /\ \E url \in Urls, net \in Responses \cup {NoResponse} :
          LET cached == sw.cache[url]
          IN  sw' = IF IsCDN(url)
                    THEN [sw EXCEPT
                            !.cache[url] = CDNStored(cached, net),
                            !.last = [url |-> url, hit |-> cached, net |-> net,
                                      fetched |-> TRUE,
                                      response |-> CDNResponse(cached, net)]]
                    ELSE [sw EXCEPT
                            !.cache[url] = LocalStored(cached, net),
                            !.last = [url |-> url, hit |-> cached, net |-> net,
                                      fetched |-> LocalFetches(cached),
                                      response |-> LocalResponse(cached, net)]]
    /\ UNCHANGED <<candidates, now, op, raw, resolved, nowKeys, steps, confirmed,
                   evicted, run, shadow, probe, loop, scan>>

NextWorker == Install \/ FetchEvent
SpecWorker == Init /\ [][NextWorker]_vars

C20_CDNNetworkFirst ==
    (sw.last.url # <<>> /\ IsCDN(sw.last.url)) =>
        /\ sw.last.fetched
        /\ sw.last.net # NoResponse =>
              /\ sw.last.response = sw.last.net
              /\ sw.cache[sw.last.url] = sw.last.net
        /\ sw.last.net = NoResponse => sw.last.response = sw.last.hit

\* the script was cached, and the network's newer version was served and stored
C20_Witness ==
    /\ sw.last.url = CDN_ASSETS[1]
    /\ sw.last.hit # NoResponse
    /\ sw.last.net # NoResponse
    /\ sw.last.net # sw.last.hit
    /\ sw.last.response = sw.last.net
    /\ sw.cache[sw.last.url] = sw.last.net

\* ------------------------------------------------------------- one detection per identity
\* C21. Within one filter call a candidate that was live before the call is
\* matched by at most one resolved detection: its streak grows by at most 1 and
\* at most one detection of the call's output originates from it.
C21_DedupPerIdentity ==
    [][op' = "filter" =>
          \A k \in 1..Len(candidates) :
             LET key == candidates[k].key
                 on == { i \in 1..Len(steps') : steps'[i].key = key }
                 at == Lookup(candidates', key, 1)
             IN  /\ Cardinality(on) <= 1
                 /\ at # 0 => candidates'[at].frames <= candidates[k].frames + 1
                 /\ Cardinality({ i \in on : steps'[i].emitted }) <= 1]_vars

\* ------------------------------------------------------------- confusion resolution alone
\* a 30 x 12 box: iou(BoxB, BoxFlat) = iou(BoxC, BoxFlat) = 240/720, above
\* CONFUSION_THRESHOLD and not above NMS_THRESHOLD
BoxFlat == <<8, 0, 30, 12>>

ScanScores == <<500, 700, 900>>
ScanClasses == <<"cup", "bowl">>
ScanBoxes == <<BoxC, BoxFlat>>
\* a person between the two, or nothing
ScanBetween == << <<>>, <<Det("person", BoxA, 600)>> >>

\* the inputs of the scan: a cup or bowl at BoxB, a cup or bowl at BoxC or
\* BoxFlat, each with one of three confidences, and a person or none
ScanCount ==
    Len(ScanClasses) * Len(ScanScores) * Len(ScanClasses) * Len(ScanBoxes)
        * Len(ScanScores) * Len(ScanBetween)

ScanInput(n) ==
    LET c1 == ScanClasses[(n % 2) + 1]
        s1 == ScanScores[((n \div 2) % 3) + 1]
        c2 == ScanClasses[((n \div 6) % 2) + 1]
        b2 == ScanBoxes[((n \div 12) % 2) + 1]
        s2 == ScanScores[((n \div 24) % 3) + 1]
        mid == ScanBetween[((n \div 72) % 2) + 1]
    IN  <<Det(c1, BoxB, s1)>> \o mid \o <<Det(c2, b2, s2)>>

\* steps 1-6 of filter on the next input
ScanNext ==
    /\ scan.next < ScanCount
    /\ \E pipe \in {Pipeline(ScanInput(scan.next), Frame.w, Frame.h)} :
          \E swaps \in {Replacements(pipe.kept, <<>>)} :
             scan' = [next |-> scan.next + 1,
                      raw |-> ScanInput(scan.next),
                      kept |-> pipe.kept,
                      resolved |-> pipe.list,
                      swaps |-> swaps,
                      swapped |-> scan.swapped \/ swaps > 0]
    /\ UNCHANGED <<candidates, now, op, raw, resolved, nowKeys, steps, confirmed,
                   evicted, run, shadow, probe, loop, sw>>

NextScan == ScanNext
SpecScan == Init /\ [][NextScan]_vars

\* sub is list with some elements left out, the order kept
RECURSIVE IsSubList(_, _)
IsSubList(sub, list) ==
    IF sub = <<>> THEN TRUE
    ELSE IF list = <<>> THEN FALSE
    ELSE IF Head(sub) = Head(list) THEN IsSubList(Tail(sub), Tail(list))
    ELSE IsSubList(sub, Tail(list))

C23_SingleFrameDropout ==
    op = "filter" =>
        \A i \in 1..Len(steps) :
           (steps[i].how = "match" /\ steps[i].idle = 1 /\ IsConfirmed(steps[i].peak))
               => steps[i].emitted

\* C23, amended. The same for a candidate whose streak was at least
\* CONFIRM_FRAMES + DECAY_RATE - 1 = 9 when last seen; from streak 8 the missed
\* call leaves 6 and the match 7, below CONFIRM_FRAMES.
C23_DropoutFromNine ==
    op = "filter" =>
        \A i \in 1..Len(steps) :
           /\ (steps[i].how = "match" /\ steps[i].idle = 1
                 /\ steps[i].peak >= CONFIRM_FRAMES + DECAY_RATE - 1)
                  => steps[i].emitted
           /\ (steps[i].how = "match" /\ steps[i].idle = 1 /\ steps[i].peak = CONFIRM_FRAMES
                 /\ steps[i].frames = CONFIRM_FRAMES - DECAY_RATE + 1)
                  => ~steps[i].emitted

\* a candidate seen at streak 9, missed once, matched again at streak 8 and emitted
C23_Witness ==
    /\ op = "filter"
    /\ \E i \in 1..Len(steps) :
          /\ steps[i].how = "match"
          /\ steps[i].idle = 1
          /\ steps[i].peak = CONFIRM_FRAMES + 1
          /\ steps[i].frames = CONFIRM_FRAMES
          /\ steps[i].emitted

\* ------------------------------------------------------------- a call that throws
\* a cup, and a detection without a bbox: alone, ranked before the cup, ranked
\* after the cup, and of a class with an aspect hint
FramesThrow ==
    { <<>>,
      <<Det("cup", BoxA, 500)>>,
      <<Det("person", NoBox, 900)>>,
      <<Det("cup", BoxA, 500), Det("person", NoBox, 900)>>,
      <<Det("cup", BoxA, 500), Det("person", NoBox, 480)>>,
      <<Det("cup", BoxA, 500), Det("bowl", NoBox, 480)>> }

FilterThrow == FilterOver(FramesThrow, MaxStreak)
NextThrow == FilterThrow \/ Reset
SpecThrow == Init /\ [][NextThrow]_vars

\* C24. A filter call that ends with an exception leaves the candidate map
\* exactly as it was before the call: no streak incremented, no candidate
\* created, none decayed.
C24_StateUnchangedOnError == [][op' = "threw" => candidates' = candidates]_vars

\* a call with a cup ranked before a detection without a bbox threw while the
\* map held a cup that a completed call would have matched
C24_Witness ==
    /\ op = "threw"
    /\ Len(raw) = 2 /\ raw[2].score < raw[1].score
    /\ \E i \in 1..Len(candidates) :
          candidates[i].cls = "cup" /\ candidates[i].frames >= 2

\* ------------------------------------------------------------- what the cache holds
\* C25. The fetch handler stores a response only when its status is 200: the
\* cache never holds an error response, and none is ever served from the cache.
C25_OnlySuccessStored ==
    /\ \A u \in Urls : sw.cache[u] # NoResponse => sw.cache[u].status = 200
    /\ (sw.last.url # <<>> /\ sw.last.response # NoResponse
          /\ (sw.last.net = NoResponse \/ ~sw.last.fetched))
           => sw.last.response.status = 200

====
